---------------------------- MODULE Spec2Model ----------------------------
(* A model of transcribe.py: the timestamp formatter ts, the three         *)
(* renderers, translate_segments and the control flow of main, with the    *)
(* external collaborators (ffmpeg, the recognizer, the translator) as      *)
(* nondeterministic choices over the outcomes they can produce.            *)
(*                                                                         *)
(* Text is a sequence of one-character strings, so that concatenation,     *)
(* stripping and lexicographic order are computed and not assumed.         *)
(* A time in seconds is an exact multiple of 1/Res second ("tick").        *)
EXTENDS Integers, Sequences, FiniteSets, TLC

VARIABLES
    pc,                 \* position of main: start, convert, transcribe, iterate,
                        \*   save, write, translate, exit; "idle" when main is not run
    inputExists,        \* in_path.exists()
    translate_to,       \* args.translate_to (<<>> when absent)
    progress,           \* args.progress
    TRANSFORMERS_AVAILABLE,
    temp_audio_path,    \* "None" or "set"
    tempDir,            \* the directory made by tempfile.mkdtemp() exists
    tempWav,            \* the file temp_dir/<stem>_fw16k.wav exists
    yielded,            \* the segments the recognizer has yielded so far, as reported
    segments,           \* main's list of segment dicts
    info,               \* the recognizer's session metadata, or NoInfo
    progressLog,        \* the progress lines printed to stdout
    outFiles,           \* the files of outdir: name -> content
    writes,             \* every write into outdir, in order: [path, set, kind]
    stderr,             \* the messages written to sys.stderr, in order
    exitCode,           \* the process exit status, -1 until the process ends
    failure,            \* what went wrong in the environment, "none" if nothing
    translated_segments,
    success,            \* translate_segments' flag: "unset", TRUE or FALSE
    translateResult,    \* how translate_segments returned: "not_called", "unavailable",
                        \*   "same_lang", "load_failed", "ok", "raised"
    translatorOutput,   \* the texts the translator returned, one per position
    fpc,                \* position of a direct call of ts / write_srt
    tsArg, tsRet,       \* argument and result of the direct call of ts
    srtArg, srtRet      \* argument and file content of the direct call of write_srt

mainVars == <<pc, inputExists, translate_to, progress, TRANSFORMERS_AVAILABLE,
              temp_audio_path, tempDir, tempWav, yielded, segments, info,
              progressLog, outFiles, writes, stderr, exitCode, failure,
              translated_segments, success, translateResult, translatorOutput>>
fmtVars == <<fpc, tsArg, tsRet, srtArg, srtRet>>
vars == <<mainVars, fmtVars>>

-----------------------------------------------------------------------------
(* Bounds of the model.                                                    *)

\* ticks per second: the resolution of the modelled float seconds (0.2 ms)
Res == 5000
\* the recognizer yields at most this many segments in a run
MaxSegs == 2
\* the recognizer reports segment ids in 1..MaxSegId
MaxSegId == 2

-----------------------------------------------------------------------------
(* Text.                                                                   *)

Digit == <<"0", "1", "2", "3", "4", "5", "6", "7", "8", "9">>

\* str(n) for a non-negative integer
RECURSIVE Dec(_)
Dec(n) == IF n < 10 THEN <<Digit[n + 1]>> ELSE Dec(n \div 10) \o <<Digit[(n % 10) + 1]>>

\* the format specs {n:02d} and {n:03d}: zero-padded to AT LEAST w characters
RECURSIVE ZeroPad(_, _)
ZeroPad(str, w) == IF Len(str) >= w THEN str ELSE ZeroPad(<<"0">> \o str, w)

FormatD(n, w) == ZeroPad(Dec(n), w)

\* str.strip() with whitespace being the space character
RECURSIVE LStrip(_)
LStrip(str) == IF str # <<>> /\ Head(str) = " " THEN LStrip(Tail(str)) ELSE str

RECURSIVE RStrip(_)
RStrip(str) ==
    IF str # <<>> /\ str[Len(str)] = " " THEN RStrip(SubSeq(str, 1, Len(str) - 1)) ELSE str

Strip(str) == RStrip(LStrip(str))

\* sep.join(strs)
RECURSIVE Join(_, _)
Join(sep, strs) ==
    IF strs = <<>> THEN <<>>
    ELSE IF Len(strs) = 1 THEN strs[1]
    ELSE strs[1] \o sep \o Join(sep, Tail(strs))

-----------------------------------------------------------------------------
(* ts: seconds -> "HH:MM:SS,mmm".                                          *)

\* the absent value None of an Optional[float]
None == -1

\* round(num / den) as Python 3 rounds: to nearest, ties to even
Round(num, den) ==
    LET q == num \div den
        r == num % den
    IN  IF 2 * r < den THEN q
        ELSE IF 2 * r > den THEN q + 1
        ELSE IF q % 2 = 0 THEN q ELSE q + 1

ts(seconds) ==
    IF seconds = None
    THEN <<"0", "0", ":", "0", "0", ":", "0", "0", ",", "0", "0", "0">>
    ELSE LET h  == seconds \div (3600 * Res)
             m  == (seconds % (3600 * Res)) \div (60 * Res)
             s  == (seconds % (60 * Res)) \div Res
             ms == Round((seconds - (seconds \div Res) * Res) * 1000, Res)
         IN  FormatD(h, 2) \o <<":">> \o FormatD(m, 2) \o <<":">> \o FormatD(s, 2)
                 \o <<",">> \o FormatD(ms, 3)

-----------------------------------------------------------------------------
(* The renderers: the content each writes to its file.                     *)

write_txt(segs) == Join(<<"\n">>, [i \in 1..Len(segs) |-> Strip(segs[i].text)])

\* one block per segment: the number i, "start --> end", the text, a blank line
write_srt(segs) ==
    [i \in 1..Len(segs) |->
        [n     |-> Dec(i),
         start |-> ts(segs[i].start),
         end   |-> ts(segs[i].end),
         text  |-> Strip(segs[i].text)]]

write_json(segs, lang, duration) ==
    [language |-> lang, duration_sec |-> duration, segments |-> segs]

-----------------------------------------------------------------------------
(* Names, languages and the recognizer's segments.                         *)

EN == <<"e", "n">>
ES == <<"e", "s">>

\* in_path.stem of the input file
InStem == <<"t", "a", "l", "k">>

\* the language codes the recognizer reports in info.language
Languages == {EN, ES}

\* the values of --translate-to: absent, or a language code
TranslateToArgs == {<<>>, EN, ES}

\* the values of --progress
ProgressArgs == {0, 2}

\* seg.text may be None
NoneText == <<"None">>

SegTexts == {NoneText, <<" ", "a", " ">>, <<"b">>}

\* (start, end) of a recognized segment, in ticks: 0 - 1.5 s and 1.5 s - 1.9996 s
SegSpans == {<<0, (3 * Res) \div 2>>, <<(3 * Res) \div 2, 2 * Res - 2>>}

\* the Segment objects the recognizer can yield
RecSegments ==
    {[id |-> i, start |-> sp[1], end |-> sp[2], text |-> t] :
        i \in 1..MaxSegId, sp \in SegSpans, t \in SegTexts}

\* the (language, duration) metadata the recognizer can report
Infos == {[language |-> l, duration |-> 3 * Res] : l \in Languages}

NoInfo == [language |-> <<>>, duration |-> None]

\* the translation_text values the translator can return
TransTexts == {<<"x">>, <<" ", "y">>}

\* StoredSegment with the loop counter stored as the id
StoredSegmentOrdinalId(idx, seg) ==
    [id    |-> idx,
     start |-> seg.start,
     end   |-> seg.end,
     text  |-> Strip(IF seg.text = NoneText THEN <<>> ELSE seg.text)]

\* the dict main appends for the idx-th yielded Segment
StoredSegment(idx, seg) ==
    [id    |-> seg.id,
     start |-> seg.start,
     end   |-> seg.end,
     text  |-> Strip(IF seg.text = NoneText THEN <<>> ELSE seg.text)]

-----------------------------------------------------------------------------
(* File names in outdir.                                                   *)

WavSuffix == <<"_", "f", "w", "1", "6", "k", ".", "w", "a", "v">>
TxtExt == <<".", "t", "x", "t">>
SrtExt == <<".", "s", "r", "t">>
JsonExt == <<".", "j", "s", "o", "n">>

\* stem = f"{in_path.stem}_{output_lang}"
OriginalStem(in_stem, output_lang) == in_stem \o <<"_">> \o output_lang

\* TranslatedStem without the destination language
TranslatedStemNoDest(in_stem, output_lang, dest_lang) == in_stem \o <<"_">> \o output_lang

\* translated_stem = f"{in_path.stem}_{output_lang}-{dest_lang}"
TranslatedStem(in_stem, output_lang, dest_lang) ==
    in_stem \o <<"_">> \o output_lang \o <<"-">> \o dest_lang

\* final_wav_path = outdir / f"{in_path.stem}_{output_lang}_fw16k.wav"
FinalWavName(in_stem, output_lang) == OriginalStem(in_stem, output_lang) \o WavSuffix

\* the file system after open(path, "w") / write_text / move / copy of an entry
Put(files, path, content) ==
    [p \in (DOMAIN files) \cup {path} |-> IF p = path THEN content ELSE files[p]]

RECURSIVE PutAll(_, _)
PutAll(files, entries) ==
    IF entries = <<>> THEN files
    ELSE PutAll(Put(files, entries[1].path, entries[1].content), Tail(entries))

LogOf(entries) ==
    [i \in 1..Len(entries) |->
        [path |-> entries[i].path, set |-> entries[i].set, kind |-> entries[i].content.kind]]

\* write_txt, write_srt and write_json of one artifact set
ArtifactEntries(segs, stem, lang, duration, set) ==
    << [path |-> stem \o TxtExt, set |-> set,
        content |-> [kind |-> "txt", data |-> write_txt(segs)]],
       [path |-> stem \o SrtExt, set |-> set,
        content |-> [kind |-> "srt", data |-> write_srt(segs)]],
       [path |-> stem \o JsonExt, set |-> set,
        content |-> [kind |-> "json", data |-> write_json(segs, lang, duration)]] >>

-----------------------------------------------------------------------------
(* translate_segments. loadable: pipeline("translation", model=...)       *)
(* returns a translator; out: the texts that translator returns, one per   *)
(* input text. The result carries the returned list and flag, the state    *)
(* of the caller's list after the call (input), and the stderr lines.      *)

\* translate_segments without the src_lang == dest_lang test
translate_segments_no_same_lang(segs, src_lang, dest_lang, loadable, out) ==
    IF ~TRANSFORMERS_AVAILABLE
    THEN [returned |-> segs, flag |-> FALSE, input |-> segs, how |-> "unavailable",
          err |-> <<"transformers no esta instalada", "Instalala con pip">>]
    ELSE IF ~loadable
    THEN [returned |-> segs, flag |-> FALSE, input |-> segs, how |-> "load_failed",
          err |-> <<"No se pudo cargar el modelo de traduccion", "Asegurate de que el modelo existe">>]
    ELSE [returned |-> [i \in 1..Len(segs) |->
                          IF i <= Len(out) THEN [segs[i] EXCEPT !.text = out[i]] ELSE segs[i]],
          flag |-> TRUE, input |-> segs, how |-> "ok", err |-> <<>>]

\* translate_segments writing the translations into the caller's dicts (no s.copy())
translate_segments_in_place(segs, src_lang, dest_lang, loadable, out) ==
    IF ~TRANSFORMERS_AVAILABLE
    THEN [returned |-> segs, flag |-> FALSE, input |-> segs, how |-> "unavailable",
          err |-> <<"transformers no esta instalada", "Instalala con pip">>]
    ELSE IF src_lang = dest_lang
    THEN [returned |-> segs, flag |-> FALSE, input |-> segs, how |-> "same_lang",
          err |-> <<>>]
    ELSE IF ~loadable
    THEN [returned |-> segs, flag |-> FALSE, input |-> segs, how |-> "load_failed",
          err |-> <<"No se pudo cargar el modelo de traduccion", "Asegurate de que el modelo existe">>]
    ELSE LET t == [i \in 1..Len(segs) |->
                     IF i <= Len(out) THEN [segs[i] EXCEPT !.text = out[i]] ELSE segs[i]]
         IN  [returned |-> t, flag |-> TRUE, input |-> t, how |-> "ok", err |-> <<>>]

translate_segments(segs, src_lang, dest_lang, loadable, out) ==
    IF ~TRANSFORMERS_AVAILABLE
    THEN [returned |-> segs, flag |-> FALSE, input |-> segs, how |-> "unavailable",
          err |-> <<"transformers no esta instalada", "Instalala con pip">>]
    ELSE IF src_lang = dest_lang
    THEN [returned |-> segs, flag |-> FALSE, input |-> segs, how |-> "same_lang",
          err |-> <<>>]
    ELSE IF ~loadable
    THEN [returned |-> segs, flag |-> FALSE, input |-> segs, how |-> "load_failed",
          err |-> <<"No se pudo cargar el modelo de traduccion", "Asegurate de que el modelo existe">>]
    ELSE [returned |-> [i \in 1..Len(segs) |->
                          IF i <= Len(out) THEN [segs[i] EXCEPT !.text = out[i]] ELSE segs[i]],
          flag |-> TRUE, input |-> segs, how |-> "ok", err |-> <<>>]

-----------------------------------------------------------------------------
(* main.                                                                   *)

Init ==
    /\ pc = "start"
    /\ inputExists \in BOOLEAN
    /\ translate_to \in TranslateToArgs
    /\ progress \in ProgressArgs
    /\ TRANSFORMERS_AVAILABLE \in BOOLEAN
    /\ temp_audio_path = "None"
    /\ tempDir = FALSE
    /\ tempWav = FALSE
    /\ yielded = <<>>
    /\ segments = <<>>
    /\ info = NoInfo
    /\ progressLog = <<>>
    /\ outFiles = <<>>
    /\ writes = <<>>
    /\ stderr = <<>>
    /\ exitCode = -1
    /\ failure = "none"
    /\ translated_segments = <<>>
    /\ success = "unset"
    /\ translateResult = "not_called"
    /\ translatorOutput = <<>>
    /\ fpc = "idle"
    /\ tsArg = None
    /\ tsRet = <<>>
    /\ srtArg = <<>>
    /\ srtRet = <<>>

\* the process ends with status code, after printing the lines msgs to stderr
Exit(code, msgs) ==
    /\ pc' = "exit"
    /\ exitCode' = code
    /\ stderr' = stderr \o msgs

\* if not in_path.exists(): raise SystemExit(f"No existe el archivo: {in_path}")
\* (the interpreter prints a SystemExit's string to stderr and exits with status 1)
InputMissing ==
    /\ pc = "start"
    /\ ~inputExists
    /\ failure' = "missing_input"
    /\ Exit(1, <<"No existe el archivo">>)
    /\ UNCHANGED <<inputExists, translate_to, progress, TRANSFORMERS_AVAILABLE,
                   temp_audio_path, tempDir, tempWav, yielded, segments, info,
                   progressLog, outFiles, writes, translated_segments, success,
                   translateResult, translatorOutput, fmtVars>>

\* the input exists: outdir is made, temp_audio_path = None, segments = [], info = None
InputFound ==
    /\ pc = "start"
    /\ inputExists
    /\ pc' = "convert"
    /\ temp_audio_path' = "None"
    /\ segments' = <<>>
    /\ info' = NoInfo
    /\ UNCHANGED <<inputExists, translate_to, progress, TRANSFORMERS_AVAILABLE,
                   tempDir, tempWav, yielded, progressLog, outFiles, writes, stderr,
                   exitCode, failure, translated_segments, success, translateResult,
                   translatorOutput, fmtVars>>

\* preconvert_to_wav: shutil.which("ffmpeg") finds nothing. SystemExit is not an
\* Exception, so main's handler does not catch it: the interpreter prints it and
\* exits with status 1. No temporary directory has been made.
FfmpegMissing ==
    /\ pc = "convert"
    /\ failure' = "ffmpeg_missing"
    /\ Exit(1, <<"ffmpeg no esta instalado">>)
    /\ UNCHANGED <<inputExists, translate_to, progress, TRANSFORMERS_AVAILABLE,
                   temp_audio_path, tempDir, tempWav, yielded, segments, info,
                   progressLog, outFiles, writes, translated_segments, success,
                   translateResult, translatorOutput, fmtVars>>

\* preconvert_to_wav: mkdtemp() makes the directory, then ffmpeg exits non-zero and
\* subprocess.run(check=True) raises CalledProcessError (partial: ffmpeg left an
\* output file behind). main's handler prints and calls sys.exit(1);
\* temp_audio_path was never assigned.
FfmpegFails(partial) ==
    /\ pc = "convert"
    /\ tempDir' = TRUE
    /\ tempWav' = partial
    /\ failure' = "ffmpeg_failed"
    /\ Exit(1, <<"Fallo la conversion de audio con ffmpeg">>)
    /\ UNCHANGED <<inputExists, translate_to, progress, TRANSFORMERS_AVAILABLE,
                   temp_audio_path, yielded, segments, info, progressLog, outFiles,
                   writes, translated_segments, success, translateResult,
                   translatorOutput, fmtVars>>

\* preconvert_to_wav returns tmp; segments = []
FfmpegOk ==
    /\ pc = "convert"
    /\ tempDir' = TRUE
    /\ tempWav' = TRUE
    /\ temp_audio_path' = "set"
    /\ segments' = <<>>
    /\ pc' = "transcribe"
    /\ UNCHANGED <<inputExists, translate_to, progress, TRANSFORMERS_AVAILABLE,
                   yielded, info, progressLog, outFiles, writes, stderr, exitCode,
                   failure, translated_segments, success, translateResult,
                   translatorOutput, fmtVars>>

\* TranscribeExcept ending with sys.exit() and no status
TranscribeExceptExitZero ==
    /\ failure' = "transcribe_raised"
    /\ IF temp_audio_path = "set" /\ tempWav
       THEN tempDir' = FALSE /\ tempWav' = FALSE
       ELSE UNCHANGED <<tempDir, tempWav>>
    /\ Exit(0, <<"Ocurrio un error durante la transcripcion">>)
    /\ UNCHANGED <<inputExists, translate_to, progress, TRANSFORMERS_AVAILABLE,
                   temp_audio_path, info, outFiles, writes, translated_segments,
                   success, translateResult, translatorOutput, fmtVars>>

\* the handler of the transcription try block: print to stderr, remove the
\* temporary directory if temp_audio_path is set and the file exists, sys.exit(1)
TranscribeExcept ==
    /\ failure' = "transcribe_raised"
    /\ IF temp_audio_path = "set" /\ tempWav
       THEN tempDir' = FALSE /\ tempWav' = FALSE
       ELSE UNCHANGED <<tempDir, tempWav>>
    /\ Exit(1, <<"Ocurrio un error durante la transcripcion">>)
    /\ UNCHANGED <<inputExists, translate_to, progress, TRANSFORMERS_AVAILABLE,
                   temp_audio_path, info, outFiles, writes, translated_segments,
                   success, translateResult, translatorOutput, fmtVars>>

\* WhisperModel(...) or model.transcribe(...) raises
ModelRaises ==
    /\ pc = "transcribe"
    /\ TranscribeExcept
    /\ UNCHANGED <<yielded, segments, progressLog>>

\* model.transcribe returns (segments_iter, info); segments = []
TranscribeStarts(i) ==
    /\ pc = "transcribe"
    /\ info' = i
    /\ segments' = <<>>
    /\ pc' = "iterate"
    /\ UNCHANGED <<inputExists, translate_to, progress, TRANSFORMERS_AVAILABLE,
                   temp_audio_path, tempDir, tempWav, yielded, progressLog, outFiles,
                   writes, stderr, exitCode, failure, translated_segments, success,
                   translateResult, translatorOutput, fmtVars>>

\* one turn of the for loop with a nonzero progress interval: append the dict,
\* print a progress line every args.progress segments
NextSegment(seg) ==
    /\ pc = "iterate"
    /\ Len(yielded) < MaxSegs
    /\ progress # 0
    /\ yielded' = Append(yielded, seg)
    /\ segments' = Append(segments, StoredSegment(Len(yielded) + 1, seg))
    /\ progressLog' =
          IF (Len(yielded) + 1) % progress = 0
          THEN Append(progressLog, [idx |-> Len(yielded) + 1, time |-> ts(seg.end)])
          ELSE progressLog
    /\ UNCHANGED <<pc, inputExists, translate_to, progress, TRANSFORMERS_AVAILABLE,
                   temp_audio_path, tempDir, tempWav, info, outFiles, writes, stderr,
                   exitCode, failure, translated_segments, success, translateResult,
                   translatorOutput, fmtVars>>

\* one turn of the for loop with args.progress = 0: the dict is appended, then
\* idx % 0 raises ZeroDivisionError inside the try block
NextSegmentZeroProgress(seg) ==
    /\ pc = "iterate"
    /\ Len(yielded) < MaxSegs
    /\ progress = 0
    /\ yielded' = Append(yielded, seg)
    /\ segments' = Append(segments, StoredSegment(Len(yielded) + 1, seg))
    /\ TranscribeExcept
    /\ UNCHANGED progressLog

\* IterRaises with a handler that prints and does not exit: main goes on to save
IterRaisesFallsThrough ==
    /\ pc = "iterate"
    /\ failure' = "transcribe_raised"
    /\ stderr' = Append(stderr, "Ocurrio un error durante la transcripcion")
    /\ pc' = "save"
    /\ UNCHANGED <<inputExists, translate_to, progress, TRANSFORMERS_AVAILABLE,
                   temp_audio_path, tempDir, tempWav, yielded, segments, info,
                   progressLog, outFiles, writes, exitCode, translated_segments,
                   success, translateResult, translatorOutput, fmtVars>>

\* the recognizer raises while the loop pulls the next segment
IterRaises ==
    /\ pc = "iterate"
    /\ TranscribeExcept
    /\ UNCHANGED <<yielded, segments, progressLog>>

\* the recognizer's sequence is exhausted: the loop and the try block end
IterEnds ==
    /\ pc = "iterate"
    /\ pc' = "save"
    /\ UNCHANGED <<inputExists, translate_to, progress, TRANSFORMERS_AVAILABLE,
                   temp_audio_path, tempDir, tempWav, yielded, segments, info,
                   progressLog, outFiles, writes, stderr, exitCode, failure,
                   translated_segments, success, translateResult, translatorOutput,
                   fmtVars>>

\* SaveAudio without the "if not segments: return"
SaveAudioNoEmptyReturn ==
    LET wav == << [path |-> FinalWavName(InStem, info.language), set |-> "original",
                   content |-> [kind |-> "wav", data |-> <<>>]] >>
    IN  /\ pc = "save"
        /\ outFiles' = PutAll(outFiles, wav)
        /\ writes' = writes \o LogOf(wav)
        /\ tempWav' = FALSE
        /\ tempDir' = FALSE
        /\ pc' = "write"
        /\ UNCHANGED <<inputExists, translate_to, progress, TRANSFORMERS_AVAILABLE,
                       temp_audio_path, yielded, segments, info, progressLog, failure,
                       translated_segments, success, translateResult,
                       translatorOutput, exitCode, stderr, fmtVars>>

\* move the WAV into outdir under its final name, remove the temporary directory;
\* with no segments, print the notice and return
SaveAudio ==
    LET wav == << [path |-> FinalWavName(InStem, info.language), set |-> "original",
                   content |-> [kind |-> "wav", data |-> <<>>]] >>
    IN  /\ pc = "save"
        /\ outFiles' = PutAll(outFiles, wav)
        /\ writes' = writes \o LogOf(wav)
        /\ tempWav' = FALSE
        /\ tempDir' = FALSE
        /\ IF segments = <<>>
           THEN Exit(0, <<>>)
           ELSE pc' = "write" /\ UNCHANGED <<exitCode, stderr>>
        /\ UNCHANGED <<inputExists, translate_to, progress, TRANSFORMERS_AVAILABLE,
                       temp_audio_path, yielded, segments, info, progressLog, failure,
                       translated_segments, success, translateResult,
                       translatorOutput, fmtVars>>

\* write the original artifact set; without --translate-to main returns
WriteOriginal ==
    LET files == ArtifactEntries(segments, OriginalStem(InStem, info.language),
                                 info.language, info.duration, "original")
    IN  /\ pc = "write"
        /\ outFiles' = PutAll(outFiles, files)
        /\ writes' = writes \o LogOf(files)
        /\ IF translate_to # <<>>
           THEN pc' = "translate" /\ UNCHANGED <<exitCode, stderr>>
           ELSE Exit(0, <<>>)
        /\ UNCHANGED <<inputExists, translate_to, progress, TRANSFORMERS_AVAILABLE,
                       temp_audio_path, tempDir, tempWav, yielded, segments, info,
                       progressLog, failure, translated_segments, success,
                       translateResult, translatorOutput, fmtVars>>

\* the files main writes after translate_segments returned r
TranslatedEntries(r) ==
    IF r.flag
    THEN << [path |-> TranslatedStem(InStem, info.language, translate_to) \o WavSuffix,
             set |-> "translated",
             content |-> outFiles[FinalWavName(InStem, info.language)]] >>
         \o ArtifactEntries(r.returned,
                            TranslatedStem(InStem, info.language, translate_to),
                            translate_to, info.duration, "translated")
    ELSE <<>>

\* translate_segments returns; on success the translated set is written; main returns
Translate(loadable, out) ==
    LET r == translate_segments(segments, info.language, translate_to, loadable, out)
    IN  /\ pc = "translate"
        /\ translated_segments' = r.returned
        /\ success' = r.flag
        /\ segments' = r.input
        /\ translateResult' = r.how
        /\ translatorOutput' = IF r.flag THEN out ELSE <<>>
        /\ outFiles' = PutAll(outFiles, TranslatedEntries(r))
        /\ writes' = writes \o LogOf(TranslatedEntries(r))
        /\ Exit(0, r.err)
        /\ UNCHANGED <<inputExists, translate_to, progress, TRANSFORMERS_AVAILABLE,
                       temp_audio_path, tempDir, tempWav, yielded, info, progressLog,
                       failure, fmtVars>>

\* the translator was loaded and raises when called: nothing catches it, the
\* interpreter prints the traceback to stderr and exits with status 1
TranslatorRaises ==
    /\ pc = "translate"
    /\ TRANSFORMERS_AVAILABLE
    /\ info.language # translate_to
    /\ translateResult' = "raised"
    /\ failure' = "translate_raised"
    /\ Exit(1, <<"Traceback">>)
    /\ UNCHANGED <<inputExists, translate_to, progress, TRANSFORMERS_AVAILABLE,
                   temp_audio_path, tempDir, tempWav, yielded, segments, info,
                   progressLog, outFiles, writes, translated_segments, success,
                   translatorOutput, fmtVars>>

Next ==
    \/ InputMissing
    \/ InputFound
    \/ FfmpegMissing
    \/ \E partial \in BOOLEAN : FfmpegFails(partial)
    \/ FfmpegOk
    \/ ModelRaises
    \/ \E i \in Infos : TranscribeStarts(i)
    \/ \E seg \in RecSegments : NextSegment(seg)
    \/ \E seg \in RecSegments : NextSegmentZeroProgress(seg)
    \/ IterRaises
    \/ IterEnds
    \/ SaveAudio
    \/ WriteOriginal
    \/ \E loadable \in BOOLEAN : \E out \in [1..Len(segments) -> TransTexts] :
          Translate(loadable, out)
    \/ TranslatorRaises

Spec == Init /\ [][Next]_vars

-----------------------------------------------------------------------------
(* Direct calls of ts and write_srt, on a wider range of times than one    *)
(* run of main meets.                                                      *)

\* fractions of a second, in ticks: exact, just off a millisecond, a half
\* second, and the last ticks before the next second (.9994, .9996, .9998)
Fracs == {0, 2, 3, Res \div 2, Res - 3, Res - 2, Res - 1}

TsInputs ==
    {((h * 60 + m) * 60 + s) * Res + f :
        h \in {0, 1, 99, 100}, m \in {0, 1, 59}, s \in {0, 1, 59}, f \in Fracs}

\* segment lists for write_srt: one segment over the wide range (0 <= start <= end),
\* or two segments as main stores them
SrtInputs ==
    {<<[id |-> 1, start |-> a, end |-> b, text |-> <<"b">>]>> :
        a \in {x \in TsInputs : x < 2 * 60 * Res}, b \in {x \in TsInputs : x < 2 * 60 * Res}}
    \cup {<<StoredSegment(1, x), StoredSegment(2, y)>> :
        x \in {z \in RecSegments : z.id = 1}, y \in {z \in RecSegments : z.id = 2}}

InitFormat ==
    /\ pc = "idle"
    /\ inputExists = TRUE
    /\ translate_to = <<>>
    /\ progress = 2
    /\ TRANSFORMERS_AVAILABLE = FALSE
    /\ temp_audio_path = "None"
    /\ tempDir = FALSE
    /\ tempWav = FALSE
    /\ yielded = <<>>
    /\ segments = <<>>
    /\ info = NoInfo
    /\ progressLog = <<>>
    /\ outFiles = <<>>
    /\ writes = <<>>
    /\ stderr = <<>>
    /\ exitCode = -1
    /\ failure = "none"
    /\ translated_segments = <<>>
    /\ success = "unset"
    /\ translateResult = "not_called"
    /\ translatorOutput = <<>>
    /\ tsRet = <<>>
    /\ srtRet = <<>>
    /\ \/ fpc = "ts" /\ tsArg \in TsInputs \cup {None} /\ srtArg = <<>>
       \/ fpc = "srt" /\ tsArg = None /\ srtArg \in SrtInputs

CallTs ==
    /\ fpc = "ts"
    /\ tsRet' = ts(tsArg)
    /\ fpc' = "ts_done"
    /\ UNCHANGED <<mainVars, tsArg, srtArg, srtRet>>

CallWriteSrt ==
    /\ fpc = "srt"
    /\ srtRet' = write_srt(srtArg)
    /\ fpc' = "srt_done"
    /\ UNCHANGED <<mainVars, tsArg, tsRet, srtArg>>

NextFormat ==
    \/ CallTs
    \/ CallWriteSrt

SpecFormat == InitFormat /\ [][NextFormat]_vars

-----------------------------------------------------------------------------
(* Vocabulary of the properties.                                           *)

Exited == pc = "exit"

\* the recognizer's sequence was consumed to its end
Consumed ==
    \/ pc \in {"save", "write", "translate"}
    \/ Exited /\ info # NoInfo /\ failure \in {"none", "translate_raised"}

\* translate_segments has returned
TranslateReturned == translateResult \in {"unavailable", "same_lang", "load_failed", "ok"}

\* seg.text as main stores it: None becomes "", then stripped
StoredText(seg) == Strip(IF seg.text = NoneText THEN <<>> ELSE seg.text)

\* the list main holds is the yielded sequence, field by field
HoldsYielded(segs) ==
    /\ Len(segs) = Len(yielded)
    /\ \A k \in 1..Len(segs) :
          /\ segs[k].id = yielded[k].id
          /\ segs[k].start = yielded[k].start
          /\ segs[k].end = yielded[k].end
          /\ segs[k].text = StoredText(yielded[k])

WritesOf(set) == {i \in 1..Len(writes) : writes[i].set = set}

TranscriptKinds == {"txt", "srt", "json"}

\* the three files of the original artifact set are in outdir
OriginalSetPresent ==
    \A ext \in {TxtExt, SrtExt, JsonExt} :
        (InStem \o <<"_">> \o info.language \o ext) \in DOMAIN outFiles

\* the code point order of the characters a timestamp is made of
CharCode(c) ==
    IF c = "," THEN 44
    ELSE IF c = ":" THEN 58
    ELSE 48 + (CHOOSE d \in 0..9 : Digit[d + 1] = c)

IsDigit(c) == \E d \in 1..10 : Digit[d] = c

\* a <= b as Python compares str
RECURSIVE LexLeq(_, _)
LexLeq(a, b) ==
    IF a = <<>> THEN TRUE
    ELSE IF b = <<>> THEN FALSE
    ELSE IF CharCode(Head(a)) < CharCode(Head(b)) THEN TRUE
    ELSE IF CharCode(Head(a)) > CharCode(Head(b)) THEN FALSE
    ELSE LexLeq(Tail(a), Tail(b))

\* the number a string of digits writes
RECURSIVE NumOf(_)
NumOf(str) ==
    IF str = <<>> THEN 0
    ELSE 10 * NumOf(SubSeq(str, 1, Len(str) - 1)) + (CharCode(str[Len(str)]) - 48)

\* str is H..H:MM:SS,mmm (two or more hour digits) with MM, SS in 00..59 and
\* mmm in 000..999, and it writes the instant totalMs milliseconds
IsTimestampOf(str, totalMs) ==
    /\ Len(str) >= 12
    /\ LET hw == Len(str) - 10
       IN  /\ \A i \in (1..hw) \cup {hw + 2, hw + 3, hw + 5, hw + 6, hw + 8, hw + 9, hw + 10} :
                 IsDigit(str[i])
           /\ str[hw + 1] = ":"
           /\ str[hw + 4] = ":"
           /\ str[hw + 7] = ","
           /\ NumOf(SubSeq(str, hw + 2, hw + 3)) <= 59
           /\ NumOf(SubSeq(str, hw + 5, hw + 6)) <= 59
           /\ ((NumOf(SubSeq(str, 1, hw)) * 60 + NumOf(SubSeq(str, hw + 2, hw + 3))) * 60
                 + NumOf(SubSeq(str, hw + 5, hw + 6))) * 1000
                 + NumOf(SubSeq(str, hw + 8, hw + 10)) = totalMs

\* seconds (in ticks) rounded to the nearest millisecond
RoundedMs(seconds) == (seconds \div Res) * 1000 + Round((seconds % Res) * 1000, Res)

-----------------------------------------------------------------------------
(* C1. The directory made by preconvert_to_wav is gone when the process    *)
(* ends, on every exit path: success, empty result, failed conversion,     *)
(* failed transcription.                                                   *)
C1_TempDirGoneAtExit == Exited => ~tempDir

(* C2. The exit status is 0 when the run succeeds (zero segments           *)
(* included) and non-zero, with a message on stderr, when the input is     *)
(* missing, the conversion fails or the transcription raises.              *)
C2_ExitCodes ==
    Exited =>
        /\ failure = "none" => exitCode = 0
        /\ ~inputExists =>
              exitCode # 0 /\ stderr = <<"No existe el archivo">>
        /\ failure \in {"ffmpeg_missing", "ffmpeg_failed"} =>
              exitCode # 0 /\ stderr # <<>>
        /\ failure = "transcribe_raised" =>
              /\ exitCode # 0
              /\ stderr = <<"Ocurrio un error durante la transcripcion">>

C2_Witness ==
    /\ Exited
    /\ failure = "transcribe_raised"
    /\ Len(yielded) >= 1
    /\ exitCode = 1

(* C3. Translation requested with equal languages, or with a translator    *)
(* that cannot be loaded: translate_segments returns the caller's list     *)
(* unmodified with flag False, the run ends normally, the original txt,    *)
(* srt and json are in outdir and no translated file was written.          *)
C3_TranslationDegrades ==
    (/\ TranslateReturned
     /\ \/ info.language = translate_to
        \/ ~TRANSFORMERS_AVAILABLE
        \/ translateResult = "load_failed")
    => /\ success = FALSE
       /\ translated_segments = segments
       /\ HoldsYielded(segments)
       /\ Exited /\ exitCode = 0
       /\ OriginalSetPresent
       /\ WritesOf("translated") = {}

C3_Witness ==
    /\ TranslateReturned
    /\ TRANSFORMERS_AVAILABLE
    /\ info.language = translate_to
    /\ Len(segments) = 2
    /\ OriginalSetPresent

(* C4. With zero recognized segments main writes no txt, srt or json,      *)
(* attempts no translation, leaves the normalized WAV in outdir and ends   *)
(* with status 0.                                                          *)
C4_EmptyResult ==
    /\ (pc \in {"write", "translate"} => yielded # <<>>)
    /\ (Exited /\ info # NoInfo /\ failure = "none" /\ yielded = <<>>) =>
          /\ \A i \in 1..Len(writes) : writes[i].kind \notin TranscriptKinds
          /\ translateResult = "not_called"
          /\ FinalWavName(InStem, info.language) \in DOMAIN outFiles
          /\ exitCode = 0
          /\ stderr = <<>>

C4_Witness ==
    /\ Exited
    /\ info # NoInfo
    /\ failure = "none"
    /\ yielded = <<>>
    /\ translate_to # <<>>
    /\ DOMAIN outFiles = {FinalWavName(InStem, info.language)}

(* C5. When translate_segments succeeds the returned list has the length   *)
(* and the order of the input, position by position the same id, start     *)
(* and end and the translator's text for that position, and the input      *)
(* list is left as it was.                                                 *)
C5_TranslationFrame ==
    translateResult = "ok" =>
        /\ success = TRUE
        /\ Len(translated_segments) = Len(yielded)
        /\ \A k \in 1..Len(translated_segments) :
              /\ translated_segments[k].id = yielded[k].id
              /\ translated_segments[k].start = yielded[k].start
              /\ translated_segments[k].end = yielded[k].end
              /\ translated_segments[k].text = translatorOutput[k]
        /\ HoldsYielded(segments)

C5_Witness ==
    /\ translateResult = "ok"
    /\ Len(segments) = 2
    /\ \E k \in 1..2 : translated_segments[k].text # segments[k].text

(* C6. For every seconds value >= 0, ts returns HH:MM:SS,mmm with mmm in   *)
(* 000..999 and MM, SS in 00..59, a fraction that rounds to 1000 ms being  *)
(* carried into the seconds; None gives 00:00:00,000.                      *)
C6_TsWellFormed ==
    fpc = "ts_done" =>
        IF tsArg = None
        THEN tsRet = <<"0", "0", ":", "0", "0", ":", "0", "0", ",", "0", "0", "0">>
        ELSE IsTimestampOf(tsRet, RoundedMs(tsArg))

(* C7. In write_srt's output, for every segment with 0 <= start <= end     *)
(* the start timestamp is lexicographically <= the end timestamp.          *)
C7_SrtStartLeqEnd ==
    fpc = "srt_done" =>
        \A i \in 1..Len(srtArg) :
            (0 <= srtArg[i].start /\ srtArg[i].start <= srtArg[i].end)
                => LexLeq(srtRet[i].start, srtRet[i].end)

(* C8 as stated. After the sequence is consumed the k-th stored segment    *)
(* carries the identifier k, whatever ids the recognizer reports.          *)
C8_StoredIdIsPosition ==
    Consumed =>
        /\ Len(segments) = Len(yielded)
        /\ \A k \in 1..Len(segments) : segments[k].id = k

(* C8 amended. After the sequence is consumed the stored list holds the    *)
(* yielded segments in order, each once, and the k-th stored id is the id  *)
(* the recognizer reported for the k-th segment; it is k when the          *)
(* recognizer numbers its segments 1, 2, ... in order.                     *)
C8_StoredIdIsRecognizerId ==
    Consumed =>
        /\ HoldsYielded(segments)
        /\ (\A k \in 1..Len(yielded) : yielded[k].id = k)
              => \A k \in 1..Len(segments) : segments[k].id = k

C8_Witness ==
    /\ Consumed
    /\ Len(segments) = 2
    /\ segments[1].id = 2
    /\ segments[2].id = 1

(* C9. In one run every path written for the translated set differs from   *)
(* every path written for the original set, so the original artifacts      *)
(* keep the content they were written with.                                *)
C9_NoPathCollision ==
    /\ \A i \in WritesOf("original") : \A j \in WritesOf("translated") :
          writes[i].path # writes[j].path
    /\ WritesOf("translated") # {} =>
          outFiles[InStem \o <<"_">> \o info.language \o TxtExt].data = write_txt(segments)

C9_Witness ==
    /\ Exited
    /\ Cardinality(WritesOf("translated")) = 4
    /\ Cardinality(WritesOf("original")) = 4
    /\ Cardinality(DOMAIN outFiles) = 8

(* C10. If the recognizer raises while its sequence is consumed, after     *)
(* zero or more segments, the run ends with no txt, srt, json or WAV       *)
(* written to outdir.                                                      *)
C10_NoPartialTranscript ==
    failure = "transcribe_raised" =>
        /\ writes = <<>>
        /\ outFiles = <<>>

C10_Witness ==
    /\ Exited
    /\ failure = "transcribe_raised"
    /\ progress # 0
    /\ Len(segments) = 2
    /\ writes = <<>>

=============================================================================
